---- MODULE Spec2Model ----
(***************************************************************************)
(* Model of the CI status endpoint of the analytics dashboard              *)
(* (catalog-analytics/app/api/github/ci-status/route.ts).                  *)
(*                                                                         *)
(* One POST request is followed from its arrival to its response.  The     *)
(* handler fans out one asynchronous resolution per element of the         *)
(* "repositories" array; each resolution suspends at its two GitHub calls  *)
(* (branch lookup, check-run listing) and the responses arrive in any      *)
(* order.  Promise.all joins them and the results are folded into a map.   *)
(*                                                                         *)
(* Strings that the code inspects character by character (repository       *)
(* identifiers) are sequences of one-character strings.  Timestamps are    *)
(* naturals ordered as their ISO-8601 strings are; 0 stands for an absent  *)
(* (null / undefined / empty) timestamp.                                   *)
(***************************************************************************)
EXTENDS Naturals, Sequences, FiniteSets, TLC

\* ------------------------------------------------------------- bounds
\* Longest "repositories" array of a request.
MaxRepos == 2
\* Most check runs GitHub lists for one commit.
MaxChecks == 3
\* Latest timestamp a check run carries.
MaxTime == 4

\* The last minute of the browser's clock.
MaxClock == 6

\* The number of requests one browser makes to the pages and routes of the login.
MaxRequests == 4

\* The most repositories in the catalog.
MaxCatalog == 4

\* The number of times the effect of the search bar runs.
MaxMounts == 2

\* The time the search bar is observed for, in polling intervals.
MaxNow == 54

\* ------------------------------------------------------------- strings
\* Characters of the class [A-Za-z0-9_.-] of repoPattern.
SafeChars == {"a", "b", "c", "d", "Z", "7", "_", ".", "-"}

\* Characters String.prototype.trim removes.
WhiteSpace == {" ", "\t", "\n"}

RECURSIVE trimStart(_)
trimStart(s) ==
  IF s # <<>> /\ Head(s) \in WhiteSpace THEN trimStart(Tail(s)) ELSE s

RECURSIVE trimEnd(_)
trimEnd(s) ==
  IF s # <<>> /\ s[Len(s)] \in WhiteSpace
  THEN trimEnd(SubSeq(s, 1, Len(s) - 1))
  ELSE s

\* String.prototype.trim
trim(s) == trimEnd(trimStart(s))

\* /^[A-Za-z0-9_.-]+\/[A-Za-z0-9_.-]+$/.test(t)
repoPattern(t) ==
  \E k \in 1..Len(t) :
    /\ t[k] = "/"
    /\ k > 1
    /\ k < Len(t)
    /\ \A j \in 1..Len(t) : j # k => t[j] \in SafeChars

isValidRepoId(repo_id) == repoPattern(trim(repo_id))

\* ------------------------------------------------------------- environment
EnvNames == {"GH_TOKEN", "CATALOG_GITHUB_TOKEN", "GITHUB_TOKEN", "METRICS_GITHUB_TOKEN"}

\* a || b of two strings: the first if it is non-empty.
Or(a, b) == IF a # "" THEN a ELSE b

\* The token chain ending in a default credential.
tokenOf_Fallback(e) ==
  Or(e["GH_TOKEN"], Or(e["CATALOG_GITHUB_TOKEN"],
     Or(e["GITHUB_TOKEN"], Or(e["METRICS_GITHUB_TOKEN"], "anonymous"))))

\* process.env.GH_TOKEN || ... || process.env.METRICS_GITHUB_TOKEN
tokenOf(e) ==
  Or(e["GH_TOKEN"], Or(e["CATALOG_GITHUB_TOKEN"], Or(e["GITHUB_TOKEN"], e["METRICS_GITHUB_TOKEN"])))

\* new Date().toISOString(): an instant after every check-run timestamp.
Now == MaxTime + 1

\* ------------------------------------------------------------- check runs
\* One element of data.check_runs.  app_slug "" stands for a check run without
\* an app (check.app?.slug is undefined); conclusion "" for null.
CheckRun(slug, name, status, conclusion, started, completed) ==
  [app_slug |-> slug, name |-> name, status |-> status, conclusion |-> conclusion,
   started_at |-> started, completed_at |-> completed]

\* The check runs GitHub may list: every conclusion, finished and unfinished
\* runs, runs with and without timestamps, and Dependabot runs recognisable by
\* app slug, by name or by both.
runSuccess == CheckRun("github-actions", "build", "completed", "success", 1, 2)

runFailure == CheckRun("github-actions", "test", "completed", "failure", 1, 3)

runInProgress == CheckRun("github-actions", "lint", "in_progress", "", 2, 0)

runDependabotFailure == CheckRun("dependabot", "update", "completed", "failure", 1, MaxTime)

CheckRunUniverse ==
  { runSuccess, runFailure, runInProgress, runDependabotFailure,
    CheckRun("github-actions", "e2e", "completed", "timed_out", 2, 2),
    CheckRun("", "legacy", "completed", "action_required", 0, 1),
    CheckRun("github-actions", "boot", "completed", "startup_failure", 0, 0),
    CheckRun("github-actions", "docs", "completed", "skipped", 0, 0),
    CheckRun("codecov", "coverage", "completed", "neutral", 3, 3),
    CheckRun("github-actions", "nightly", "completed", "cancelled", 2, 3),
    CheckRun("github-actions", "old", "completed", "stale", 1, 1),
    CheckRun("github-actions", "deploy", "queued", "", 0, 0),
    CheckRun("", "Dependabot", "in_progress", "", MaxTime, 0),
    CheckRun("dependabot", "Dependabot", "completed", "success", 2, 2) }

\* Sequences over S of length at most n.
SeqUpTo(S, n) == UNION { [1..k -> S] : k \in 0..n }

CheckRunLists == SeqUpTo(CheckRunUniverse, MaxChecks)

\* ------------------------------------------------------------- CIStatus
CIStatus(repo_id, state, total_checks, updated_at, details) ==
  [repo_id |-> repo_id, state |-> state, total_checks |-> total_checks,
   updated_at |-> updated_at, details |-> details]

\* The per-repository result before its promise has settled.
NoStatus == CIStatus(<<>>, "", 0, 0, "")

\* The Dependabot test by app slug alone.
isDependabot_SlugOnly(check) == check.app_slug = "dependabot"

\* check.app?.slug === 'dependabot' || check.name === 'Dependabot'
isDependabot(check) == check.app_slug = "dependabot" \/ check.name = "Dependabot"

\* The update time that prefers started_at.
updateTimeOf_StartedFirst(check) ==
  IF check.started_at # 0 THEN check.started_at ELSE check.completed_at

\* check.completed_at || check.started_at
updateTimeOf(check) ==
  IF check.completed_at # 0 THEN check.completed_at ELSE check.started_at

failureConclusions == {"failure", "timed_out", "action_required", "startup_failure"}

\* One iteration of "for (const check of checkRuns)" on the loop's variables.
checkStep(acc, check) ==
  IF isDependabot(check) THEN acc
  ELSE
    [hasFailure |->
       IF check.status # "completed" THEN acc.hasFailure
       ELSE IF check.conclusion \in failureConclusions THEN TRUE
       ELSE acc.hasFailure,
     hasPending |->
       IF check.status # "completed" THEN TRUE ELSE acc.hasPending,
     mostRecentUpdate |->
       IF /\ updateTimeOf(check) # 0
          /\ (acc.mostRecentUpdate = 0 \/ updateTimeOf(check) > acc.mostRecentUpdate)
       THEN updateTimeOf(check)
       ELSE acc.mostRecentUpdate]

RECURSIVE checkLoop(_, _)
checkLoop(acc, checkRuns) ==
  IF checkRuns = <<>> THEN acc
  ELSE checkLoop(checkStep(acc, Head(checkRuns)), Tail(checkRuns))

\* The state with pending tested before failure.
overallState_PendingFirst(acc) ==
  IF acc.hasPending THEN "pending"
  ELSE IF acc.hasFailure THEN "failure"
  ELSE "success"

\* "Determine overall state based on the checks"
overallState(acc) ==
  IF acc.hasFailure THEN "failure"
  ELSE IF acc.hasPending THEN "pending"
  ELSE "success"

\* `${checkRuns.length} check(s)`
checksDetails(n) == ToString(n) \o " check(s)"

\* The tail of the per-repository function once the check-run listing has
\* answered with the list checkRuns.
statusOfCheckRuns(repo_id, checkRuns) ==
  IF Len(checkRuns) = 0
  THEN CIStatus(repo_id, "unknown", 0, Now, "No CI configured")
  ELSE
    LET acc == checkLoop([hasFailure |-> FALSE, hasPending |-> FALSE,
                          mostRecentUpdate |-> 0], checkRuns)
    IN CIStatus(repo_id, overallState(acc), Len(checkRuns),
                IF acc.mostRecentUpdate # 0 THEN acc.mostRecentUpdate ELSE Now,
                checksDetails(Len(checkRuns)))

invalidStatus(repoIdStr) ==
  CIStatus(repoIdStr, "unknown", 0, Now, "Invalid repository identifier")

notFoundStatus(repo_id) ==
  CIStatus(repo_id, "unknown", 0, Now, "Main branch not found")

\* The result of the catch block of the per-repository function.
errorStatus(repo_id) ==
  CIStatus(repo_id, "unknown", 0, Now, "Error fetching status")

noTokenStatus(repo_id) ==
  CIStatus(repo_id, "unknown", 0, Now, "GitHub token not configured")

\* acc[status.repo_id] = status
put(acc, status) ==
  [k \in (DOMAIN acc) \cup {status.repo_id} |->
     IF k = status.repo_id THEN status ELSE acc[k]]

\* The fold that stops at the first rejected identifier.
RECURSIVE statusMapOf_StopsAtInvalid(_, _)
statusMapOf_StopsAtInvalid(acc, statuses) ==
  IF statuses = <<>> \/ Head(statuses).details = "Invalid repository identifier"
  THEN acc
  ELSE statusMapOf_StopsAtInvalid(put(acc, Head(statuses)), Tail(statuses))

\* results.reduce((acc, status) => { acc[status.repo_id] = status; ... }, {})
RECURSIVE statusMapOf(_, _)
statusMapOf(acc, statuses) ==
  IF statuses = <<>> THEN acc
  ELSE statusMapOf(put(acc, Head(statuses)), Tail(statuses))

\* ------------------------------------------------------------- inputs
\* Repository identifiers a request may carry.
idAB == <<"a", "/", "b">>
idABpadded == <<" ", "a", "/", "b", "\n">>
idCD == <<"c", "-", "/", "Z", "7", ".">>
idNoSlash == <<"a", "b">>
idNoSlashPadded == <<" ", "a", "b">>
idInnerSpace == <<"a", " ", "b", "/", "c", "!">>

RepoIds == {idAB, idABpadded, idCD, idNoSlash, idNoSlashPadded, idInnerSpace}

\* The body of the request as request.json() yields it: shape "invalid_json"
\* makes request.json() throw, "not_array" is a body whose "repositories" is
\* no array, "array" a body whose "repositories" is the given array of strings.
Request(shape, repositories) == [shape |-> shape, repositories |-> repositories]

\* String(42): what the handler makes of the number 42 as an element of the
\* array, in String(repo_id) and as a property key.
id42 == <<"4", "2">>

\* Arrays with an element that is no string: the number 42 beside the string
\* 'a/b'.  Shape "mixed_array" carries, for each element, its String() image,
\* the only thing the handler reads of it.
MixedArrays ==
  { r \in SeqUpTo({idAB, id42}, MaxRepos) : \E k \in DOMAIN r : r[k] = id42 }

Requests ==
  { Request("array", r) : r \in SeqUpTo(RepoIds, MaxRepos) }
    \cup { Request("mixed_array", r) : r \in MixedArrays }
    \cup { Request("not_array", <<>>), Request("invalid_json", <<>>) }

EnvUnset == [n \in EnvNames |-> ""]

\* Configurations of the four token variables: none set, only the last of the
\* chain set, two of them set.
EnvChoices ==
  { EnvUnset,
    [EnvUnset EXCEPT !["METRICS_GITHUB_TOKEN"] = "ghp_m"],
    [EnvUnset EXCEPT !["CATALOG_GITHUB_TOKEN"] = "ghp_c", !["GITHUB_TOKEN"] = "ghp_g"] }

\* ------------------------------------------------------------- GitHub
\* The repositories that exist on GitHub.
RepoPaths == {idAB, idCD}

\* The SHA of the head commit of main of a repository.
headSha(path) == <<"sha">> \o path

\* What GitHub answers for one repository: to GET /repos/{path}/branches/main
\* ("ok", 404 "not_found", another non-2xx status "http_error", a rejected
\* fetch "network_error", a 2xx body without commit.sha "bad_schema") and to
\* GET /repos/{path}/commits/{sha}/check-runs ("ok" with check_runs, a 2xx
\* body without a check_runs list "no_list", "http_error", "network_error",
\* a 2xx body that is null or no JSON "bad_schema").
Answer(branch, checks, check_runs) ==
  [branch |-> branch, checks |-> checks, check_runs |-> check_runs]

BranchFailures == {"not_found", "http_error", "network_error", "bad_schema"}

ChecksFailures == {"http_error", "network_error", "bad_schema"}

\* GitHub answers 404 for a path that names no repository.
answerOf(gh, path) ==
  IF path \in DOMAIN gh THEN gh[path] ELSE Answer("not_found", "ok", <<>>)

\* ------------------------------------------------------------- state
VARIABLES
  env,          \* process.env restricted to the four token variables
  github,       \* the collaborator: RepoPaths -> Answer
  request,      \* the request being served
  phase,        \* position of POST: "received", "awaiting" (Promise.all), "responded"
  pc,           \* position of each per-repository promise: "branch", "checks", "done"
  results,      \* the CIStatus each per-repository promise resolved to
  branchCalls,  \* per promise, the paths of the branch lookups it issued
  checkCalls,   \* per promise, the <<path, sha>> of the check-run listings it issued
  response      \* the HTTP response: [status, error, body]

\* The dashboard page (analytics-content.tsx), one mounted component.
VARIABLES
  loadData,     \* position of loadData: "metrics", "descriptions", "done"
  historicalData, \* TRUE once setHistoricalData received the metrics
  repoDescriptions, \* TRUE once setRepoDescriptions received the descriptions
  effectDue,    \* a dependency of the CI-status effect changed since it last ran
  ciStatuses,   \* repo_id -> state, the statuses on display
  ciLoading,    \* the loading flag handed to every badge
  ciCache,      \* the cached response: [set, data, timestamp]
  ciRequests,   \* the number of CI-status requests without a response
  clock         \* Date.now() of the browser, in minutes

\* The login session of one browser (lib/session) and the last answers to it.
VARIABLES
  secret,       \* SESSION_SECRET is usable: getIronSession does not throw
  cookie,       \* the browser's session cookie: [kind, data], data being SessionData
  reply,       \* the reply to the browser's last request
  requests      \* the number of requests answered

\* The OAuth login of that browser (login and callback routes).
VARIABLES
  callbackRoute, \* the callback deployed: "route.ts" or "part_003"
  allowedDomains, \* authConfig.allowedDomains, <<>> when not configured
  oauth_state,  \* the browser's oauth_state cookie, 0 without one
  pkce_verifier, \* the browser's pkce_verifier cookie, 0 without one
  exchanges,    \* the number of token exchanges the callback attempted
  callback      \* the callback request being served, with the cookies it carried

\* The three sortable tables of the dashboard.
VARIABLES
  metrics,      \* the rows loaded: [repos, templates, pypi]
  sortColumn, sortDirection,                  \* the repositories table
  templateSortColumn, templateSortDirection,  \* the templates table
  pypiSortColumn, pypiSortDirection,          \* the PyPI table
  clicked       \* the header clicked last: [table, column]

\* The catalog page.
VARIABLES
  repositoryData,  \* repositories.json as imported at build time
  activeFilter  \* the filter tab selected

\* The search bar of the catalog page and the browser around it.
VARIABLES
  now,          \* the time since the page was opened, in polling intervals
  PagefindUI,   \* whether window.PagefindUI is defined
  heroSearchContainer,  \* the element with id hero-search
  mounted,      \* whether the search bar is mounted
  effects       \* the runs of the effect, each with its interval and timeout

handlerVars ==
  <<env, github, request, phase, pc, results, branchCalls, checkCalls, response>>

dashboardVars ==
  <<loadData, historicalData, repoDescriptions, effectDue, ciStatuses, ciLoading,
    ciCache, ciRequests, clock>>

sessionVars == <<secret, cookie, reply, requests>>

oauthVars ==
  <<callbackRoute, allowedDomains, oauth_state, pkce_verifier, exchanges, callback>>

tableVars ==
  <<metrics, sortColumn, sortDirection, templateSortColumn, templateSortDirection,
    pypiSortColumn, pypiSortDirection, clicked>>

catalogVars == <<repositoryData, activeFilter>>

searchVars == <<now, PagefindUI, heroSearchContainer, mounted, effects>>

vars ==
  <<handlerVars, dashboardVars, sessionVars, oauthVars, tableVars, catalogVars,
    searchVars>>

\* What the steps of one component leave alone: the other components.
exceptHandler ==
  <<dashboardVars, sessionVars, oauthVars, tableVars, catalogVars, searchVars>>

exceptDashboard ==
  <<handlerVars, sessionVars, oauthVars, tableVars, catalogVars, searchVars>>

exceptSession == <<handlerVars, dashboardVars, tableVars, catalogVars, searchVars>>

exceptTables ==
  <<handlerVars, dashboardVars, sessionVars, oauthVars, catalogVars, searchVars>>

exceptCatalog ==
  <<handlerVars, dashboardVars, sessionVars, oauthVars, tableVars, searchVars>>

exceptSearch ==
  <<handlerVars, dashboardVars, sessionVars, oauthVars, tableVars, catalogVars>>

Response(status, error, body) == [status |-> status, error |-> error, body |-> body]

NoResponse == Response(0, "", <<>>)

repositories == request.repositories

Tasks == 1..Len(pc)

token == tokenOf(env)

\* ------------------------------------------------------------- initial states
InitHandler ==
  /\ phase = "received"
  /\ pc = <<>>
  /\ results = <<>>
  /\ branchCalls = <<>>
  /\ checkCalls = <<>>
  /\ response = NoResponse

\* The handler with no request to serve.
NoRequest ==
  /\ env = EnvUnset
  /\ github = [p \in RepoPaths |-> Answer("ok", "ok", <<>>)]
  /\ request = Request("array", <<>>)
  /\ InitHandler

\* useState: the component as it mounts.  Its effects are due to run once.
NoCache == [set |-> FALSE, data |-> <<>>, timestamp |-> 0]

InitDashboard ==
  /\ loadData = "metrics"
  /\ historicalData = FALSE
  /\ repoDescriptions = FALSE
  /\ effectDue = TRUE
  /\ ciStatuses = <<>>
  /\ ciLoading = FALSE
  /\ ciCache = NoCache
  /\ ciRequests = 0
  /\ clock = 0

\* A browser without a session cookie: iron-session hands out an empty
\* session, whose isAuthenticated is undefined.
NoSession == [tokens |-> "", user |-> "", isAuthenticated |-> FALSE]

\* A cookie is missing ("none"), removed by the server ("cleared"), not sealed
\* by the server ("garbage") or sealed by it around data ("sealed").
Cookie(kind, data) == [kind |-> kind, data |-> data]

\* useState of the three tables, before any data has loaded.
NoMetrics == [repos |-> <<>>, templates |-> <<>>, pypi |-> <<>>]

NoClick == [table |-> "", column |-> ""]

\* The catalog page as it opens on an empty catalog.
NoCatalog ==
  /\ repositoryData = [repositories |-> <<>>]
  /\ activeFilter = "all"

\* The catalog page before the search bar mounts, without its container.
NoSearchBar ==
  /\ now = 0
  /\ PagefindUI = FALSE
  /\ heroSearchContainer = [present |-> FALSE, placeholder |-> FALSE, instances |-> 0]
  /\ mounted = FALSE
  /\ effects = <<>>

InitTables ==
  /\ metrics = NoMetrics
  /\ sortColumn = "unique_cloners" /\ sortDirection = "desc"
  /\ templateSortColumn = "unique_cloners" /\ templateSortDirection = "desc"
  /\ pypiSortColumn = "downloads_last_month" /\ pypiSortDirection = "desc"
  /\ clicked = NoClick
  /\ NoCatalog
  /\ NoSearchBar

\* An answer: the route asked, the HTTP status, the redirect target, the
\* page content, and the authenticated and user members of a JSON body.
Reply(route, status, redirect, content, authenticated, user) ==
  [route |-> route, status |-> status, redirect |-> redirect, content |-> content,
   authenticated |-> authenticated, user |-> user]

NoReply == Reply("", 0, "", "", "", "")

\* A callback request: the code, state and error parameters of its URL, the
\* oauth_state and pkce_verifier cookies sent with it, and what Google will
\* answer to the token exchange and the user-info lookup made for it.
CallbackRequest(code, state, error, storedState, pkceVerifier, google) ==
  [pending |-> TRUE, code |-> code, state |-> state, error |-> error,
   storedState |-> storedState, pkceVerifier |-> pkceVerifier, google |-> google]

NoCallback ==
  [pending |-> FALSE, code |-> "", state |-> 0, error |-> "",
   storedState |-> 0, pkceVerifier |-> 0, google |-> ""]

\* No login under way: the code of route.ts is deployed without a domain
\* restriction, and the browser holds no cookie of the login.
InitOAuth ==
  /\ callbackRoute = "route.ts"
  /\ allowedDomains = <<>>
  /\ oauth_state = 0
  /\ pkce_verifier = 0
  /\ exchanges = 0
  /\ callback = NoCallback

InitSession ==
  /\ secret = TRUE
  /\ cookie = Cookie("none", NoSession)
  /\ reply = NoReply
  /\ requests = 0
  /\ InitOAuth

\* Check-run lists of the batch specification: none, a failure beside an
\* unfinished run, a success beside a Dependabot failure, only Dependabot.
BatchCheckRunLists ==
  { <<>>, <<runFailure, runInProgress>>, <<runSuccess, runDependabotFailure>>,
    <<runDependabotFailure>> }

BatchAnswers ==
  { Answer(b, "ok", <<>>) : b \in BranchFailures }
    \cup { Answer("ok", c, <<>>) : c \in ChecksFailures \cup {"no_list"} }
    \cup { Answer("ok", "ok", r) : r \in BatchCheckRunLists }

\* A request with any array of identifiers (or a malformed body), any token
\* configuration, and GitHub answering each repository in any of the ways of
\* BatchAnswers.
Init ==
  /\ env \in EnvChoices
  /\ github \in [RepoPaths -> BatchAnswers]
  /\ request \in Requests
  /\ InitHandler
  /\ InitDashboard
  /\ InitSession
  /\ InitTables

\* ------------------------------------------------------------- actions
\* The head of the callback without the validation of the identifier.
startPromise_NoValidation(repo_id) ==
  [pc |-> "branch", result |-> NoStatus, branchCalls |-> <<trim(repo_id)>>]

\* The synchronous head of the async callback of repositories.map: it runs up
\* to the first await (the branch lookup) or to the early return.
startPromise(repo_id) ==
  LET repoIdStr == trim(repo_id)
  IN IF ~isValidRepoId(repoIdStr)
     THEN [pc |-> "done", result |-> invalidStatus(repoIdStr), branchCalls |-> <<>>]
     ELSE [pc |-> "branch", result |-> NoStatus, branchCalls |-> <<repoIdStr>>]

\* POST up to its first suspension: the request is parsed and checked, the
\* token is read, and either the response is produced at once or every
\* per-repository promise is started.
POST ==
  /\ phase = "received"
  /\ IF request.shape = "invalid_json"
     THEN /\ response' = Response(500, "Failed to fetch CI statuses", <<>>)
          /\ phase' = "responded"
          /\ UNCHANGED <<pc, results, branchCalls, checkCalls>>
     ELSE IF request.shape \notin {"array", "mixed_array"}
     THEN /\ response' = Response(400,
                 "Invalid request: \"repositories\" must be an array of strings", <<>>)
          /\ phase' = "responded"
          /\ UNCHANGED <<pc, results, branchCalls, checkCalls>>
     ELSE IF token = ""
     THEN /\ response' = Response(200, "",
                 statusMapOf(<<>>, [i \in 1..Len(repositories) |->
                                      noTokenStatus(repositories[i])]))
          /\ phase' = "responded"
          /\ UNCHANGED <<pc, results, branchCalls, checkCalls>>
     ELSE /\ pc' = [i \in 1..Len(repositories) |-> startPromise(repositories[i]).pc]
          /\ results' = [i \in 1..Len(repositories) |-> startPromise(repositories[i]).result]
          /\ branchCalls' =
               [i \in 1..Len(repositories) |-> startPromise(repositories[i]).branchCalls]
          /\ checkCalls' = [i \in 1..Len(repositories) |-> <<>>]
          /\ phase' = "awaiting"
          /\ UNCHANGED response
  /\ UNCHANGED <<env, github, request>>

\* The branch response handled without the 404 case.
afterBranch_No404(repo_id, path, answer) ==
  IF answer.branch = "ok"
  THEN [pc |-> "checks", result |-> NoStatus,
        checkCalls |-> << <<trim(repo_id), headSha(path)>> >>]
  ELSE [pc |-> "done", result |-> errorStatus(repo_id), checkCalls |-> <<>>]

\* The branch response handled without the test of branchResponse.ok: the
\* check runs are listed for whatever SHA the body holds.
afterBranch_NoOkTest(repo_id, path, answer) ==
  [pc |-> "checks", result |-> NoStatus,
   checkCalls |-> << <<trim(repo_id),
                       IF answer.branch = "ok" THEN headSha(path) ELSE <<"undefined">> >> >>]

\* The per-repository promise i resumes with the answer to its branch lookup.
afterBranch(repo_id, path, answer) ==
  IF answer.branch = "ok"
  THEN [pc |-> "checks", result |-> NoStatus,
        checkCalls |-> << <<trim(repo_id), headSha(path)>> >>]
  ELSE IF answer.branch = "not_found"
  THEN [pc |-> "done", result |-> notFoundStatus(repo_id), checkCalls |-> <<>>]
  ELSE [pc |-> "done", result |-> errorStatus(repo_id), checkCalls |-> <<>>]

\* A failed branch lookup that settles every unsettled promise with the error.
BranchResponse_AbortsSiblings(i) ==
  /\ phase = "awaiting"
  /\ pc[i] = "branch"
  /\ LET path == branchCalls[i][1]
         next == afterBranch(repositories[i], path, answerOf(github, path))
     IN /\ pc' = [j \in Tasks |-> IF j = i THEN next.pc
                                  ELSE IF next.pc = "done" THEN "done" ELSE pc[j]]
        /\ results' = [j \in Tasks |->
                         IF j = i THEN next.result
                         ELSE IF next.pc = "done" /\ pc[j] # "done"
                         THEN errorStatus(repositories[j])
                         ELSE results[j]]
        /\ checkCalls' = [checkCalls EXCEPT ![i] = next.checkCalls]
  /\ UNCHANGED <<env, github, request, phase, branchCalls, response>>

\* A failed branch lookup that is issued once more before it is given up.
BranchResponse_Retries(i) ==
  /\ phase = "awaiting"
  /\ pc[i] = "branch"
  /\ LET path == branchCalls[i][1]
         next == afterBranch(repositories[i], path, answerOf(github, path))
     IN IF next.result.details = "Error fetching status" /\ Len(branchCalls[i]) < 2
        THEN /\ branchCalls' = [branchCalls EXCEPT ![i] = Append(@, path)]
             /\ UNCHANGED <<pc, results, checkCalls>>
        ELSE /\ pc' = [pc EXCEPT ![i] = next.pc]
             /\ results' = [results EXCEPT ![i] = next.result]
             /\ checkCalls' = [checkCalls EXCEPT ![i] = next.checkCalls]
             /\ UNCHANGED branchCalls
  /\ UNCHANGED <<env, github, request, phase, response>>

BranchResponse(i) ==
  /\ phase = "awaiting"
  /\ pc[i] = "branch"
  /\ LET path == branchCalls[i][1]
         next == afterBranch(repositories[i], path, answerOf(github, path))
     IN /\ pc' = [pc EXCEPT ![i] = next.pc]
        /\ results' = [results EXCEPT ![i] = next.result]
        /\ checkCalls' = [checkCalls EXCEPT ![i] = next.checkCalls]
  /\ UNCHANGED <<env, github, request, phase, branchCalls, response>>

\* The check-run response whose failures are reported with state 'error'.
afterChecks_ErrorState(repo_id, call, answer) ==
  IF call[2] # headSha(call[1]) \/ answer.checks \in ChecksFailures
  THEN CIStatus(repo_id, "error", 0, Now, "Error fetching status")
  ELSE statusOfCheckRuns(repo_id,
         IF answer.checks = "no_list" THEN <<>> ELSE answer.check_runs)

\* The per-repository promise i resumes with the answer to its check-run
\* listing.  A listing for a SHA the repository does not have is refused.
afterChecks(repo_id, call, answer) ==
  IF call[2] # headSha(call[1]) \/ answer.checks \in ChecksFailures
  THEN errorStatus(repo_id)
  ELSE statusOfCheckRuns(repo_id,
         IF answer.checks = "no_list" THEN <<>> ELSE answer.check_runs)

ChecksResponse(i) ==
  /\ phase = "awaiting"
  /\ pc[i] = "checks"
  /\ LET call == checkCalls[i][1]
     IN results' = [results EXCEPT
                      ![i] = afterChecks(repositories[i], call, answerOf(github, call[1]))]
  /\ pc' = [pc EXCEPT ![i] = "done"]
  /\ UNCHANGED <<env, github, request, phase, branchCalls, checkCalls, response>>

\* Promise.all resolving as soon as one promise has settled.
Join_AfterFirst ==
  /\ phase = "awaiting"
  /\ \E i \in Tasks : pc[i] = "done"
  /\ response' = Response(200, "", statusMapOf(<<>>, results))
  /\ phase' = "responded"
  /\ UNCHANGED <<env, github, request, pc, results, branchCalls, checkCalls>>

\* Promise.all(statusPromises) resolves and the results are folded into the map.
Join ==
  /\ phase = "awaiting"
  /\ \A i \in Tasks : pc[i] = "done"
  /\ response' = Response(200, "", statusMapOf(<<>>, results))
  /\ phase' = "responded"
  /\ UNCHANGED <<env, github, request, pc, results, branchCalls, checkCalls>>

\* The steps of the handler; the dashboard and the session are other
\* components, which no step of the handler touches.
Next ==
  \/ POST /\ UNCHANGED exceptHandler
  \/ (\E i \in Tasks : BranchResponse(i)) /\ UNCHANGED exceptHandler
  \/ (\E i \in Tasks : ChecksResponse(i)) /\ UNCHANGED exceptHandler
  \/ Join /\ UNCHANGED exceptHandler

Spec == Init /\ [][Next]_vars

\* The event loop runs the continuation of Promise.all once every promise has
\* settled.  Nothing obliges GitHub to answer a call: fetch is given no signal
\* and no timeout, so the response actions carry no fairness.
SpecFair == Spec /\ WF_vars(Join /\ UNCHANGED exceptHandler)

\* ------------------------------------------------------------- check-run specification
\* The check runs of the universe that Dependabot owns (app slug 'dependabot'
\* or name 'Dependabot').
DependabotRuns ==
  { c \in CheckRunUniverse : c.app_slug = "dependabot" \/ c.name = "Dependabot" }

withoutDependabot(runs) == SelectSeq(runs, LAMBDA c : c \notin DependabotRuns)

\* A request for two repositories whose head commits carry the same check runs
\* except that the second has none of Dependabot's: GitHub lists any check runs
\* r for the first and r without the Dependabot runs for the second.
InitChecks ==
  /\ env = [EnvUnset EXCEPT !["GH_TOKEN"] = "ghp_t"]
  /\ request = Request("array", <<idAB, idCD>>)
  /\ \E r \in CheckRunLists :
       github = [p \in RepoPaths |->
                   IF p = idAB THEN Answer("ok", "ok", r)
                   ELSE Answer("ok", "ok", withoutDependabot(r))]
  /\ InitHandler
  /\ InitDashboard
  /\ InitSession
  /\ InitTables

SpecChecks == InitChecks /\ [][Next]_vars

\* ------------------------------------------------------------- dashboard
\* The states a CI status can carry.
CIStates == {"success", "failure", "pending", "unknown", "error"}

\* The repositories of github_metrics_history.json with a snapshot.
MetricsRepos == {idAB, idCD}

\* The bodies a 200 answer of the CI-status endpoint can carry: a state for
\* some of the identifiers asked for.  Of a status only its state is kept.
StatusMaps == UNION { [S -> CIStates] : S \in SUBSET MetricsRepos }

\* 5 * 60 * 1000 ms, in minutes.
CACHE_DURATION == 5

\* useMemo: the rows of the table, empty until the metrics have loaded.
allRepoMetrics == IF historicalData THEN MetricsRepos ELSE {}

isCacheValid == ciCache.set /\ clock - ciCache.timestamp < CACHE_DURATION

\* The badge that takes a missing entry for a passing one.
CIStatusBadge_DefaultSuccess(status, loading) ==
  IF loading THEN "spinner"
  ELSE IF status = "unknown" THEN "dash"
  ELSE IF status = "undefined" THEN "check"
  ELSE [success |-> "check", failure |-> "cross", error |-> "cross",
        pending |-> "warning", unknown |-> "dash"][status]

\* The badge of one row, by what it draws: the spinner, the dash, or the icon
\* of statusConfig.  status is the state of the entry, "undefined" without one.
CIStatusBadge(status, loading) ==
  IF loading THEN "spinner"
  ELSE IF status = "undefined" \/ status = "unknown" THEN "dash"
  ELSE [success |-> "check", failure |-> "cross", error |-> "cross",
        pending |-> "warning", unknown |-> "dash"][status]

\* ciStatuses[repo.repo_id]
statusOf(repo_id) ==
  IF repo_id \in DOMAIN ciStatuses THEN ciStatuses[repo_id] ELSE "undefined"

\* What the row of a repository shows in its CI column.
badge(repo_id) == CIStatusBadge(statusOf(repo_id), ciLoading)

\* loadData after its first fetch: the metrics arrive and are stored, or the
\* fetch fails and loadData ends in its catch.
MetricsLoaded ==
  /\ loadData = "metrics"
  /\ \E ok \in BOOLEAN :
       IF ok
       THEN /\ historicalData' = TRUE
            /\ effectDue' = TRUE
            /\ loadData' = "descriptions"
       ELSE /\ loadData' = "done"
            /\ UNCHANGED <<historicalData, effectDue>>
  /\ UNCHANGED <<repoDescriptions, ciStatuses, ciLoading, ciCache, ciRequests, clock>>

\* loadData after its last fetch: the descriptions arrive and are stored, which
\* recomputes allRepoMetrics, or they do not and nothing is stored.
DescriptionsLoaded ==
  /\ loadData = "descriptions"
  /\ loadData' = "done"
  /\ \E ok \in BOOLEAN :
       IF ok
       THEN /\ repoDescriptions' = TRUE
            /\ effectDue' = TRUE
       ELSE UNCHANGED <<repoDescriptions, effectDue>>
  /\ UNCHANGED <<historicalData, ciStatuses, ciLoading, ciCache, ciRequests, clock>>

\* The effect without its cache test: a request whenever there are rows.
fetchCIStatuses_NoCache ==
  /\ effectDue
  /\ effectDue' = FALSE
  /\ IF allRepoMetrics = {}
     THEN UNCHANGED <<ciStatuses, ciLoading, ciRequests>>
     ELSE /\ ciLoading' = TRUE
          /\ ciRequests' = ciRequests + 1
          /\ UNCHANGED ciStatuses
  /\ UNCHANGED <<loadData, historicalData, repoDescriptions, ciCache, clock>>

\* The CI-status effect up to its await: nothing without rows, the cached data
\* while the cache is valid, a request otherwise.
fetchCIStatuses ==
  /\ effectDue
  /\ effectDue' = FALSE
  /\ IF allRepoMetrics = {}
     THEN UNCHANGED <<ciStatuses, ciLoading, ciRequests>>
     ELSE IF isCacheValid
     THEN /\ ciStatuses' = ciCache.data
          /\ UNCHANGED <<ciLoading, ciRequests>>
     ELSE /\ ciLoading' = TRUE
          /\ ciRequests' = ciRequests + 1
          /\ UNCHANGED ciStatuses
  /\ UNCHANGED <<loadData, historicalData, repoDescriptions, ciCache, clock>>

\* The rest of the effect on a 200 answer: the statuses and the cache are set
\* and the flag is cleared.  The new cache is a changed dependency.
ResponseOk ==
  /\ ciRequests > 0
  /\ \E data \in StatusMaps :
       /\ ciStatuses' = data
       /\ ciCache' = [set |-> TRUE, data |-> data, timestamp |-> clock]
  /\ effectDue' = TRUE
  /\ ciLoading' = FALSE
  /\ ciRequests' = ciRequests - 1
  /\ UNCHANGED <<loadData, historicalData, repoDescriptions, clock>>

\* The rest of the effect when fetch rejects or the answer is not ok: the
\* catch empties the statuses and the flag is cleared.
ResponseFailed ==
  /\ ciRequests > 0
  /\ ciStatuses' = <<>>
  /\ ciLoading' = FALSE
  /\ ciRequests' = ciRequests - 1
  /\ UNCHANGED <<loadData, historicalData, repoDescriptions, effectDue, ciCache, clock>>

\* A minute passes.
Tick ==
  /\ clock < MaxClock
  /\ clock' = clock + 1
  /\ UNCHANGED <<loadData, historicalData, repoDescriptions, effectDue, ciStatuses,
                 ciLoading, ciCache, ciRequests>>

NextDashboard ==
  \/ MetricsLoaded /\ UNCHANGED exceptDashboard
  \/ DescriptionsLoaded /\ UNCHANGED exceptDashboard
  \/ fetchCIStatuses /\ UNCHANGED exceptDashboard
  \/ ResponseOk /\ UNCHANGED exceptDashboard
  \/ ResponseFailed /\ UNCHANGED exceptDashboard
  \/ Tick /\ UNCHANGED exceptDashboard

\* The dashboard mounts; the handler and the login are at rest.
InitPage ==
  /\ NoRequest
  /\ InitDashboard
  /\ InitSession
  /\ InitTables

SpecDashboard == InitPage /\ [][NextDashboard]_vars

\* ------------------------------------------------------------- login session
\* The Google accounts: one of the allowed domain, one of another domain, one
\* whose user info carries no e-mail.
Users == {"alice", "bob", "carol"}

\* user.email, as its parts around '@'; <<>> stands for undefined.
email(user) ==
  [alice |-> <<"alice", "vectorinstitute.ai">>,
   bob |-> <<"bob", "example.com">>,
   carol |-> <<>>][user]

\* The values of authConfig.allowedDomains: not configured (or empty), or one domain.
AllowedDomains == {<<>>, <<"vectorinstitute.ai">>}

\* What Google answers to a callback's calls: the token exchange is refused
\* or fails, the user-info lookup fails, or both succeed for a user.
GoogleAnswers == {"exchange_refused", "exchange_fails", "userinfo_fails"} \cup Users

AuthTokens == {"tokens1", "tokens2"}

\* getIronSession on the cookie store: the unsealed data of a cookie sealed
\* with the secret, the empty session for no cookie, a removed one, or one
\* that does not unseal.
getSession ==
  IF cookie.kind = "sealed" THEN cookie.data ELSE NoSession

\* The cookie that session.save() sets after the three assignments of
\* createSession.
createSession(tokens, user) ==
  Cookie("sealed", [tokens |-> tokens, user |-> user, isAuthenticated |-> TRUE])

\* session.destroy(): the data is dropped and the cookie is removed.
destroySession == Cookie("cleared", NoSession)

\* The browser presents a cookie that the server never sealed.
ForgeCookie ==
  /\ cookie.kind # "garbage"
  /\ cookie' = Cookie("garbage", NoSession)
  /\ UNCHANGED <<secret, reply, requests>>

\* The layout of the dashboard: its children, or redirect('/login').
AnalyticsLayout(s) == IF ~s.isAuthenticated THEN "/login" ELSE ""

\* The page: AnalyticsContent, or redirect('/login').
Home(s) == IF ~s.isAuthenticated THEN "/login" ELSE ""

\* The page that renders the dashboard whatever the session.
pageReply_NoRedirect(s) == Reply("page", 200, "", "AnalyticsContent", "", "")

\* The reply to a request for the analytics page: layout and page read the
\* session of the same request, and a redirect of either leaves no content.
pageReply(s) ==
  IF AnalyticsLayout(s) # "" THEN Reply("page", 307, AnalyticsLayout(s), "", "", "")
  ELSE IF Home(s) # "" THEN Reply("page", 307, Home(s), "", "", "")
  ELSE Reply("page", 200, "", "AnalyticsContent", "", "")

\* GET /api/auth/session with the session read.
sessionReply(s) ==
  IF ~s.isAuthenticated THEN Reply("session", 401, "", "", "false", "")
  ELSE Reply("session", 200, "", "", "true", s.user)

\* A request for the analytics page.  When getSession throws, the page fails
\* to render.
Page ==
  /\ requests < MaxRequests
  /\ requests' = requests + 1
  /\ reply' = IF secret THEN pageReply(getSession)
               ELSE Reply("page", 500, "", "", "", "")
  /\ UNCHANGED <<secret, cookie>>

\* GET /api/auth/session.  When getSession throws, the catch answers 500.
SessionCheck ==
  /\ requests < MaxRequests
  /\ requests' = requests + 1
  /\ reply' = IF secret THEN sessionReply(getSession)
               ELSE Reply("session", 500, "", "", "", "")
  /\ UNCHANGED <<secret, cookie>>

\* GET /api/auth/logout.
Logout ==
  /\ requests < MaxRequests
  /\ requests' = requests + 1
  /\ IF secret
     THEN /\ cookie' = destroySession
          /\ reply' = Reply("logout", 307, "/analytics", "", "", "")
     ELSE /\ reply' = Reply("logout", 500, "", "", "", "")
          /\ UNCHANGED cookie
  /\ UNCHANGED secret

\* The Logout button: handleLogout sends POST to the logout route, which
\* exports GET only, so the framework answers 405 and runs no handler; the
\* browser then navigates to the login page.
handleLogout ==
  /\ requests < MaxRequests
  /\ getSession.isAuthenticated
  /\ requests' = requests + 1
  /\ reply' = Reply("handleLogout", 405, "", "", "", "")
  /\ UNCHANGED <<secret, cookie>>

\* GET /api/auth/login: a fresh state and verifier are stored in cookies and
\* the browser is sent to Google; 500 when generatePKCE throws.
Login ==
  /\ requests < MaxRequests
  /\ requests' = requests + 1
  /\ \E ok \in BOOLEAN :
       IF ok
       THEN /\ oauth_state' = requests + 1
            /\ pkce_verifier' = requests + 1
            /\ reply' = Reply("login", 307, "accounts.google.com", "", "", "")
       ELSE /\ reply' = Reply("login", 500, "", "", "", "")
            /\ UNCHANGED <<oauth_state, pkce_verifier>>
  /\ UNCHANGED <<secret, cookie, callbackRoute, allowedDomains, exchanges, callback>>

\* The browser requests the callback URL with any parameters and the cookies
\* it holds: sent there by Google after a login, or by a link of another origin.
\* The error parameter is left out for route.ts, which never reads it.
CallbackSent ==
  /\ requests < MaxRequests
  /\ ~callback.pending
  /\ \E code \in {"", "code"}, state \in 0..MaxRequests, google \in GoogleAnswers,
        error \in IF callbackRoute = "part_003" THEN {"", "access_denied"} ELSE {""} :
       callback' = CallbackRequest(code, state, error, oauth_state, pkce_verifier, google)
  /\ UNCHANGED <<sessionVars, callbackRoute, allowedDomains, oauth_state, pkce_verifier,
                 exchanges>>

\* The state check that only tests the presence of the parameter.
stateVerified_PresenceOnly(q) == q.state # 0

\* state is present and equal to the oauth_state cookie of the request.
stateVerified(q) == q.state # 0 /\ q.state = q.storedState

\* user.email.split('@')[1]
emailDomain(user) ==
  IF Len(email(user)) >= 2 THEN email(user)[2] ELSE "undefined"

\* The domain check, for a user with an e-mail.
domainAuthorized(user) ==
  allowedDomains = <<>> \/ \E i \in DOMAIN allowedDomains : allowedDomains[i] = emailDomain(user)

\* response.cookies.delete that leaves the cookie in place.
deleteCookie_Keeps(value) == value

\* response.cookies.delete(name): the browser drops the cookie.
deleteCookie(value) == 0

\* The outcomes of the callback that are no success: of route.ts a JSON error
\* with a status, of part_003 a redirect to the login page with an error code.
callbackError(status, code) ==
  IF callbackRoute = "route.ts" THEN Reply("callback", status, "", "", "", "")
  ELSE Reply("callback", 307,
             [access_denied |-> "/login?error=access_denied",
              invalid_callback |-> "/login?error=invalid_callback",
              invalid_state |-> "/login?error=invalid_state",
              missing_verifier |-> "/login?error=missing_verifier",
              token_exchange_failed |-> "/login?error=token_exchange_failed",
              unauthorized_domain |-> "/login?error=unauthorized_domain",
              authentication_failed |-> "/login?error=authentication_failed"][code],
             "", "", "")

\* The callback up to its first call to Google: the reply it returns before
\* any call, or NoReply when it goes on to the token exchange.
callbackChecks(q) ==
  IF callbackRoute = "route.ts"
  THEN IF q.code = "" THEN callbackError(400, "invalid_callback")
       ELSE IF ~stateVerified(q) THEN callbackError(400, "invalid_state")
       ELSE IF q.pkceVerifier = 0 THEN callbackError(400, "missing_verifier")
       ELSE NoReply
  ELSE IF q.error # "" THEN callbackError(307, q.error)
       ELSE IF q.code = "" \/ q.state = 0 THEN callbackError(307, "invalid_callback")
       ELSE IF ~stateVerified(q) THEN callbackError(307, "invalid_state")
       ELSE IF q.pkceVerifier = 0 THEN callbackError(307, "missing_verifier")
       ELSE NoReply

\* The callback from the token exchange on: the reply it returns without a
\* session, or NoReply when it goes on to create the session.  route.ts reads
\* user.email.split, which throws for a user without e-mail.
callbackCalls(q) ==
  IF q.google = "exchange_refused" THEN callbackError(500, "token_exchange_failed")
  ELSE IF q.google \in {"exchange_fails", "userinfo_fails"}
  THEN callbackError(500, "authentication_failed")
  ELSE IF allowedDomains # <<>> /\ email(q.google) = <<>>
  THEN IF callbackRoute = "route.ts" THEN callbackError(500, "authentication_failed")
       ELSE callbackError(307, "unauthorized_domain")
  ELSE IF ~domainAuthorized(q.google) THEN callbackError(403, "unauthorized_domain")
  ELSE IF ~secret THEN callbackError(500, "authentication_failed")
  ELSE NoReply

\* GET /api/auth/callback answers the request it was sent.
Callback ==
  /\ callback.pending
  /\ callback' = NoCallback
  /\ requests' = requests + 1
  /\ IF callbackChecks(callback) # NoReply
     THEN /\ reply' = callbackChecks(callback)
          /\ UNCHANGED <<cookie, oauth_state, pkce_verifier, exchanges>>
     ELSE /\ exchanges' = exchanges + 1
          /\ IF callbackCalls(callback) # NoReply
             THEN /\ reply' = callbackCalls(callback)
                  /\ UNCHANGED <<cookie, oauth_state, pkce_verifier>>
             ELSE /\ \E tokens \in AuthTokens :
                       cookie' = createSession(tokens, callback.google)
                  /\ reply' = Reply("callback", 307, "/analytics", "", "", "")
                  /\ pkce_verifier' = deleteCookie(pkce_verifier)
                  /\ oauth_state' = deleteCookie(oauth_state)
  /\ UNCHANGED <<secret, callbackRoute, allowedDomains>>

NextSession ==
  \/ ForgeCookie /\ UNCHANGED oauthVars /\ UNCHANGED exceptSession
  \/ Page /\ UNCHANGED oauthVars /\ UNCHANGED exceptSession
  \/ SessionCheck /\ UNCHANGED oauthVars /\ UNCHANGED exceptSession
  \/ Logout /\ UNCHANGED oauthVars /\ UNCHANGED exceptSession
  \/ handleLogout /\ UNCHANGED oauthVars /\ UNCHANGED exceptSession
  \/ Login /\ UNCHANGED exceptSession
  \/ CallbackSent /\ UNCHANGED exceptSession
  \/ Callback /\ UNCHANGED exceptSession

\* A browser without cookie, and a server with or without a usable secret;
\* the handler and the dashboard are at rest.
InitLogin ==
  /\ NoRequest
  /\ InitDashboard
  /\ InitTables
  /\ secret \in BOOLEAN
  /\ cookie = Cookie("none", NoSession)
  /\ reply = NoReply
  /\ requests = 0
  /\ callbackRoute \in {"route.ts", "part_003"}
  /\ allowedDomains \in AllowedDomains
  /\ oauth_state = 0
  /\ pkce_verifier = 0
  /\ exchanges = 0
  /\ callback = NoCallback

SpecSession == InitLogin /\ [][NextSession]_vars

\* ------------------------------------------------------------- dashboard tables
\* A string is the sequence of the ranks of its characters; a nullable string
\* says whether it is null.
Str(text) == [null |-> FALSE, text |-> text]

Null == [null |-> TRUE, text |-> <<>>]

SortColumns ==
  {"name", "language", "stars", "forks", "unique_visitors", "unique_cloners", "ci_status"}

PyPISortColumns ==
  {"name", "downloads_last_day", "downloads_last_week", "downloads_last_month", "version"}

\* What the data files can hold: nothing, or three repositories and three
\* packages in one of two orders, with equal values in some columns, a null
\* language and a null version.
Datasets ==
  LET RepoMetrics(repo_id, name, language, stars, forks, unique_visitors, unique_cloners) ==
        [repo_id |-> repo_id, name |-> Str(name), language |-> language, stars |-> stars,
         forks |-> forks, unique_visitors |-> unique_visitors,
         unique_cloners |-> unique_cloners]
      PyPIMetrics(repo_id, name, version, day, week, month) ==
        [repo_id |-> repo_id, name |-> Str(name), version |-> version,
         downloads_last_day |-> day, downloads_last_week |-> week,
         downloads_last_month |-> month]
      idEF == <<"e", "/", "f">>
      repoOne == RepoMetrics(idAB, <<2>>, Null, 5, 1, 0, 3)
      repoTwo == RepoMetrics(idCD, <<1>>, Str(<<1, 2>>), 5, 0, 2, 3)
      repoThree == RepoMetrics(idEF, <<1, 1>>, Str(<<1>>), 0, 2, 1, 0)
      packageOne == PyPIMetrics(idAB, <<3>>, Str(<<1, 0>>), 0, 7, 9)
      packageTwo == PyPIMetrics(idCD, <<1, 2>>, Null, 4, 7, 8)
      packageThree == PyPIMetrics(idEF, <<1>>, Str(<<1>>), 4, 2, 9)
  IN { NoMetrics,
       [repos |-> <<repoOne, repoTwo, repoThree>>, templates |-> <<repoThree, repoTwo>>,
        pypi |-> <<packageOne, packageTwo, packageThree>>],
       [repos |-> <<repoThree, repoOne, repoTwo>>, templates |-> <<repoTwo>>,
        pypi |-> <<packageThree, packageTwo, packageOne>>] }

RECURSIVE localeCompare(_, _)
\* a.localeCompare(b) of two strings: negative, zero or positive.
localeCompare(a, b) ==
  IF a = <<>> THEN (IF b = <<>> THEN 0 ELSE 0 - 1)
  ELSE IF b = <<>> THEN 1
  ELSE IF Head(a) < Head(b) THEN 0 - 1
  ELSE IF Head(a) > Head(b) THEN 1
  ELSE localeCompare(Tail(a), Tail(b))

\* null and undefined are compared as "".
orEmpty(value) == IF value.null THEN <<>> ELSE value.text

statusOrder ==
  [success |-> 4, pending |-> 3, failure |-> 2, error |-> 2, unknown |-> 1]

\* ciStatuses[repo_id]?.state || 'unknown'
stateOrUnknown(repo_id) ==
  IF statusOf(repo_id) = "undefined" THEN "unknown" ELSE statusOf(repo_id)

\* The comparator of the three sorts: by status order for ci_status, by
\* localeCompare for strings, by difference for numbers, reversed for desc.
compare(a, b, column, direction) ==
  LET asc ==
        IF column = "ci_status"
        THEN statusOrder[stateOrUnknown(a.repo_id)] - statusOrder[stateOrUnknown(b.repo_id)]
        ELSE IF column \in {"name", "language", "version"}
        THEN localeCompare(orEmpty(a[column]), orEmpty(b[column]))
        ELSE a[column] - b[column]
  IN IF direction = "asc" THEN asc ELSE 0 - asc

RECURSIVE insert(_, _, _, _)
\* x put behind the last row of a sorted list that does not come after it.
insert(sorted, x, column, direction) ==
  IF sorted = <<>> THEN <<x>>
  ELSE IF compare(sorted[Len(sorted)], x, column, direction) <= 0 THEN Append(sorted, x)
  ELSE Append(insert(SubSeq(sorted, 1, Len(sorted) - 1), x, column, direction),
              sorted[Len(sorted)])

RECURSIVE sort(_, _, _)
\* [...rows].sort(comparator): a stable sort of a copy.
sort(rows, column, direction) ==
  IF rows = <<>> THEN <<>>
  ELSE insert(sort(SubSeq(rows, 1, Len(rows) - 1), column, direction),
              rows[Len(rows)], column, direction)

\* useMemo: the rows on display in each table.
sortedRepoMetrics == sort(metrics.repos, sortColumn, sortDirection)

sortedTemplateMetrics == sort(metrics.templates, templateSortColumn, templateSortDirection)

sortedPypiMetrics == sort(metrics.pypi, pypiSortColumn, pypiSortDirection)

\* The handler that keeps the direction when the column changes.
sorting_KeepsDirection(current, direction, column) ==
  IF current = column
  THEN [column |-> current, direction |-> IF direction = "asc" THEN "desc" ELSE "asc"]
  ELSE [column |-> column, direction |-> direction]

\* The body the three click handlers share: the sort column and direction
\* after a click on the header of column.
sorting(current, direction, column) ==
  IF current = column
  THEN [column |-> current, direction |-> IF direction = "asc" THEN "desc" ELSE "asc"]
  ELSE [column |-> column, direction |-> "desc"]

\* A click on a header of the repositories table.
handleSort(column) ==
  /\ sortColumn' = sorting(sortColumn, sortDirection, column).column
  /\ sortDirection' = sorting(sortColumn, sortDirection, column).direction
  /\ clicked' = [table |-> "repos", column |-> column]
  /\ UNCHANGED <<metrics, templateSortColumn, templateSortDirection, pypiSortColumn,
                 pypiSortDirection>>

\* A click on a header of the templates table.
handleTemplateSort(column) ==
  /\ templateSortColumn' = sorting(templateSortColumn, templateSortDirection, column).column
  /\ templateSortDirection' =
       sorting(templateSortColumn, templateSortDirection, column).direction
  /\ clicked' = [table |-> "templates", column |-> column]
  /\ UNCHANGED <<metrics, sortColumn, sortDirection, pypiSortColumn, pypiSortDirection>>

\* A click on a header of the PyPI table.
handlePypiSort(column) ==
  /\ pypiSortColumn' = sorting(pypiSortColumn, pypiSortDirection, column).column
  /\ pypiSortDirection' = sorting(pypiSortColumn, pypiSortDirection, column).direction
  /\ clicked' = [table |-> "pypi", column |-> column]
  /\ UNCHANGED <<metrics, sortColumn, sortDirection, templateSortColumn,
                 templateSortDirection>>

NextTables ==
  \/ (\E column \in SortColumns : handleSort(column))
       /\ UNCHANGED exceptTables
  \/ (\E column \in SortColumns : handleTemplateSort(column))
       /\ UNCHANGED exceptTables
  \/ (\E column \in PyPISortColumns : handlePypiSort(column))
       /\ UNCHANGED exceptTables

\* The dashboard with its data loaded and an answer of the CI-status
\* endpoint on display, no header clicked yet.
InitSorting ==
  /\ NoRequest
  /\ InitSession
  /\ loadData = "done" /\ historicalData = TRUE /\ repoDescriptions = TRUE
  /\ effectDue = FALSE /\ ciLoading = FALSE /\ ciRequests = 0 /\ clock = 0
  /\ ciStatuses \in
       { <<>>,
         [r \in {idAB, idCD} |-> IF r = idAB THEN "failure" ELSE "success"],
         [r \in {idAB, idCD} |-> IF r = idAB THEN "pending" ELSE "error"] }
  /\ ciCache = [set |-> TRUE, data |-> ciStatuses, timestamp |-> 0]
  /\ metrics \in Datasets
  /\ sortColumn = "unique_cloners" /\ sortDirection = "desc"
  /\ templateSortColumn = "unique_cloners" /\ templateSortDirection = "desc"
  /\ pypiSortColumn = "downloads_last_month" /\ pypiSortDirection = "desc"
  /\ clicked = NoClick
  /\ NoCatalog
  /\ NoSearchBar

SpecTables == InitSorting /\ [][NextTables]_vars

\* ------------------------------------------------------------- catalog page
RepositoryTypes == {"tool", "bootcamp", "applied-research"}

Filters == {"all"} \cup RepositoryTypes

\* The catalogs of at most MaxCatalog repositories, each with its own repo_id.
Catalogs ==
  { [i \in DOMAIN types |-> [repo_id |-> i, type |-> types[i]]] :
      types \in UNION { [1..n -> RepositoryTypes] : n \in 0..MaxCatalog } }

RECURSIVE forEach(_, _)
\* repositoryData.repositories.forEach: one more for the type of each repository.
forEach(repos, typeCounts) ==
  IF repos = <<>> THEN typeCounts
  ELSE forEach(Tail(repos), [typeCounts EXCEPT ![Head(repos).type] = @ + 1])

\* The number on each tab, starting from the length for all and 0 for each type.
counts ==
  forEach(repositoryData.repositories,
          [key \in Filters |-> IF key = "all" THEN Len(repositoryData.repositories) ELSE 0])

\* The page that shows every repository whatever the filter.
filteredRepositories_Unfiltered == repositoryData.repositories

\* The repositories whose cards are displayed.
filteredRepositories ==
  IF activeFilter = "all" THEN repositoryData.repositories
  ELSE SelectSeq(repositoryData.repositories, LAMBDA repo : repo.type = activeFilter)

\* Whether the message "No repositories found for this filter." is displayed.
noResults == Len(filteredRepositories) = 0

\* A click on a tab.
onFilterChange(key) ==
  /\ activeFilter' = key
  /\ UNCHANGED repositoryData

NextCatalog ==
  \E key \in Filters : onFilterChange(key) /\ UNCHANGED exceptCatalog

\* The page as it opens on some catalog, with the tab All selected.
InitCatalog ==
  /\ NoRequest
  /\ InitDashboard
  /\ InitSession
  /\ metrics = NoMetrics
  /\ sortColumn = "unique_cloners" /\ sortDirection = "desc"
  /\ templateSortColumn = "unique_cloners" /\ templateSortDirection = "desc"
  /\ pypiSortColumn = "downloads_last_month" /\ pypiSortDirection = "desc"
  /\ clicked = NoClick
  /\ NoSearchBar
  /\ \E catalog \in Catalogs : repositoryData = [repositories |-> catalog]
  /\ activeFilter = "all"

SpecCatalog == InitCatalog /\ [][NextCatalog]_vars

\* ------------------------------------------------------------- search bar
\* Time is counted in polling intervals of 100 ms: setTimeout(..., 5000).
TIMEOUT == 50

\* One run of the effect: when it ran, whether its interval and its timeout
\* are still scheduled, how many interval callbacks have run, how many
\* PagefindUI objects it has constructed and whether it has inserted the
\* placeholder.
Effect(at, started) ==
  [mountedAt |-> at, checkPagefind |-> started, ticks |-> 0, timeout |-> started,
   instantiated |-> 0, placeholder |-> FALSE]

\* heroSearchContainer.children.length === 0
childless == ~heroSearchContainer.placeholder /\ heroSearchContainer.instances = 0

\* The callback of setInterval is due: 100 ms after the run or the last
\* callback.
intervalDue(e) == e.checkPagefind /\ now >= e.mountedAt + e.ticks + 1

\* The callback of setTimeout is due: 5000 ms after the run.
timeoutDue(e) == e.timeout /\ now >= e.mountedAt + TIMEOUT

\* The search bar mounts and its effect runs: with the container in the
\* document it starts the interval and the timeout.
Mount ==
  /\ ~mounted
  /\ Len(effects) < MaxMounts
  /\ mounted' = TRUE
  /\ effects' = Append(effects, Effect(now, heroSearchContainer.present))
  /\ UNCHANGED <<now, PagefindUI, heroSearchContainer>>

\* The search bar unmounts and the cleanup of its last effect runs:
\* clearInterval(checkPagefind).
Unmount ==
  /\ mounted
  /\ mounted' = FALSE
  /\ effects' = [effects EXCEPT ![Len(effects)].checkPagefind = FALSE]
  /\ UNCHANGED <<now, PagefindUI, heroSearchContainer>>

\* The script pagefind-ui.js has loaded and defines window.PagefindUI.
ScriptLoads ==
  /\ ~PagefindUI
  /\ PagefindUI' = TRUE
  /\ UNCHANGED <<now, heroSearchContainer, mounted, effects>>

\* The interval callback of run i: with PagefindUI defined it clears the
\* interval and constructs a PagefindUI on the container.
checkPagefind(i) ==
  /\ intervalDue(effects[i])
  /\ IF PagefindUI
     THEN /\ effects' = [effects EXCEPT ![i].checkPagefind = FALSE, ![i].ticks = @ + 1,
                                        ![i].instantiated = @ + 1]
          /\ heroSearchContainer' = [heroSearchContainer EXCEPT !.instances = @ + 1]
     ELSE /\ effects' = [effects EXCEPT ![i].ticks = @ + 1]
          /\ UNCHANGED heroSearchContainer
  /\ UNCHANGED <<now, PagefindUI, mounted>>

\* The timeout callback of run i: it clears the interval and, with PagefindUI
\* undefined and the container childless, inserts the placeholder.
timeout(i) ==
  /\ timeoutDue(effects[i])
  /\ IF ~PagefindUI /\ childless
     THEN /\ effects' = [effects EXCEPT ![i].checkPagefind = FALSE, ![i].timeout = FALSE,
                                        ![i].placeholder = TRUE]
          /\ heroSearchContainer' = [heroSearchContainer EXCEPT !.placeholder = TRUE]
     ELSE /\ effects' = [effects EXCEPT ![i].checkPagefind = FALSE, ![i].timeout = FALSE]
          /\ UNCHANGED heroSearchContainer
  /\ UNCHANGED <<now, PagefindUI, mounted>>

\* 100 ms pass once the page is open and every callback that is due has run.
Elapse ==
  /\ effects # <<>>
  /\ now < MaxNow
  /\ \A i \in DOMAIN effects : ~intervalDue(effects[i]) /\ ~timeoutDue(effects[i])
  /\ now' = now + 1
  /\ UNCHANGED <<PagefindUI, heroSearchContainer, mounted, effects>>

NextSearch ==
  \/ Mount /\ UNCHANGED exceptSearch
  \/ Unmount /\ UNCHANGED exceptSearch
  \/ ScriptLoads /\ UNCHANGED exceptSearch
  \/ (\E i \in DOMAIN effects : checkPagefind(i)) /\ UNCHANGED exceptSearch
  \/ (\E i \in DOMAIN effects : timeout(i)) /\ UNCHANGED exceptSearch
  \/ Elapse /\ UNCHANGED exceptSearch

\* The page before the search bar mounts, with or without the container.
InitSearchBar ==
  /\ NoRequest
  /\ InitDashboard
  /\ InitSession
  /\ metrics = NoMetrics
  /\ sortColumn = "unique_cloners" /\ sortDirection = "desc"
  /\ templateSortColumn = "unique_cloners" /\ templateSortDirection = "desc"
  /\ pypiSortColumn = "downloads_last_month" /\ pypiSortDirection = "desc"
  /\ clicked = NoClick
  /\ NoCatalog
  /\ now = 0
  /\ PagefindUI = FALSE
  /\ \E present \in BOOLEAN :
       heroSearchContainer = [present |-> present, placeholder |-> FALSE, instances |-> 0]
  /\ mounted = FALSE
  /\ effects = <<>>

SpecSearch == InitSearchBar /\ [][NextSearch]_vars

\* ------------------------------------------------------------- claims
\* Promise i has resolved.
settled(i) == i \in Tasks /\ pc[i] = "done"

\* What GitHub answers for the repository of promise i.
answerFor(i) == answerOf(github, trim(repositories[i]))

\* Promise i resolved after GitHub listed the check runs of its head commit.
listed(i) ==
  /\ settled(i)
  /\ branchCalls[i] # <<>>
  /\ answerFor(i).branch = "ok"
  /\ answerFor(i).checks = "ok"

\* The check runs GitHub listed for promise i, and those of them that are
\* not Dependabot's.
raw(i) == answerFor(i).check_runs

considered(i) == withoutDependabot(raw(i))

anyRun(runs, P(_)) == \E k \in DOMAIN runs : P(runs[k])

failed(c) ==
  /\ c.status = "completed"
  /\ c.conclusion \in {"failure", "timed_out", "action_required", "startup_failure"}

unfinished(c) == c.status # "completed"

\* The state the reduction rule assigns to a set of check runs.
precedence(runs) ==
  IF anyRun(runs, failed) THEN "failure"
  ELSE IF anyRun(runs, unfinished) THEN "pending"
  ELSE "success"

\* C1: when the check runs listed for a repository are non-empty and none is
\* Dependabot's, its state is failure if a completed run concluded failure,
\* timed_out, action_required or startup_failure, else pending if a run is not
\* completed, else success, whatever the order of the runs.
C1_ReductionPrecedence ==
  \A i \in Tasks :
    (listed(i) /\ raw(i) # <<>> /\ considered(i) = raw(i))
      => results[i].state = precedence(raw(i))

\* C1 witness: a repository whose unfinished run is listed before its failed
\* run has resolved to failure.
C1_Witness ==
  \E i \in Tasks :
    /\ listed(i)
    /\ considered(i) = raw(i)
    /\ \E k, l \in DOMAIN raw(i) : k < l /\ unfinished(raw(i)[k]) /\ failed(raw(i)[l])
    /\ results[i].state = "failure"

\* C2: two repositories whose listed check runs differ only in Dependabot
\* runs, and that have a run that is not Dependabot's, resolve to the same
\* state and the same updated_at.
C2_DependabotExcluded ==
  \A i, j \in Tasks :
    (listed(i) /\ listed(j) /\ considered(i) = considered(j) /\ considered(i) # <<>>)
      => /\ results[i].state = results[j].state
         /\ results[i].updated_at = results[j].updated_at

\* C2 witness: a repository with a successful run, a failed Dependabot run and
\* an unfinished Dependabot run of later date has resolved to success beside
\* the repository without the Dependabot runs.
C2_Witness ==
  \E i, j \in Tasks :
    /\ listed(i) /\ listed(j)
    /\ considered(i) = considered(j)
    /\ raw(j) = considered(j)
    /\ anyRun(raw(i), LAMBDA c : c \in DependabotRuns /\ failed(c))
    /\ anyRun(raw(i), LAMBDA c : c \in DependabotRuns /\ unfinished(c))
    /\ results[i].state = "success"
    /\ results[j].state = "success"

\* C3: a repository all of whose listed check runs are Dependabot's resolves
\* to unknown with total_checks 0 and details 'No CI configured'.
C3_OnlyDependabotIsUnknown ==
  \A i \in Tasks :
    (listed(i) /\ raw(i) # <<>> /\ considered(i) = <<>>)
      => /\ results[i].state = "unknown"
         /\ results[i].total_checks = 0
         /\ results[i].details = "No CI configured"

\* C4: for a repository that resolves to success, failure or pending,
\* total_checks and the n of details '<n> check(s)' are the number of listed
\* check runs that are not Dependabot's.
C4_TotalCountsConsidered ==
  \A i \in Tasks :
    (listed(i) /\ results[i].state \in {"success", "failure", "pending"})
      => /\ results[i].total_checks = Len(considered(i))
         /\ results[i].details = ToString(Len(considered(i))) \o " check(s)"

\* The request carried an array and has been answered.
answered == phase = "responded" /\ request.shape = "array"

inputIds == { repositories[i] : i \in 1..Len(repositories) }

\* C5: the result mapping has exactly one entry per distinct input
\* identifier, keyed by exactly that identifier, whether the identifier is
\* valid or not, padded with whitespace or not, with or without a token.
C5_OneEntryPerIdentifier ==
  answered =>
    /\ response.status = 200
    /\ DOMAIN response.body = inputIds
    /\ \A k \in DOMAIN response.body : response.body[k].repo_id = k

\* Promise i resolved as an invalid identifier without any GitHub call.
rejectedUncalled(i) ==
  /\ settled(i)
  /\ results[i].state = "unknown"
  /\ results[i].total_checks = 0
  /\ results[i].details = "Invalid repository identifier"
  /\ branchCalls[i] = <<>>
  /\ checkCalls[i] = <<>>

\* C6 as stated: with a token, every identifier that does not match
\* [A-Za-z0-9_.-]+/[A-Za-z0-9_.-]+ resolves to unknown, 0, 'Invalid
\* repository identifier' and no GitHub call is issued for it.
C6_NonMatchingIsRejected ==
  (phase # "received" /\ token # "")
    => \A i \in Tasks : ~repoPattern(repositories[i]) => rejectedUncalled(i)

\* C6 amended: with a token, every identifier that, once its leading and
\* trailing whitespace is removed, does not match the pattern resolves to
\* unknown, 0, 'Invalid repository identifier', no GitHub call is issued for
\* it, and the response carries that result.
C6_TrimmedNonMatchingIsRejected ==
  (phase # "received" /\ token # "")
    => \A i \in Tasks :
         ~repoPattern(trim(repositories[i]))
           => /\ rejectedUncalled(i)
              /\ answered =>
                   /\ trim(repositories[i]) \in DOMAIN response.body
                   /\ response.body[trim(repositories[i])].state = "unknown"
                   /\ response.body[trim(repositories[i])].total_checks = 0
                   /\ response.body[trim(repositories[i])].details
                        = "Invalid repository identifier"

\* C6 witness: a request with a token has been answered; one identifier was
\* rejected and GitHub was called for another.
C6_Witness ==
  /\ answered
  /\ token # ""
  /\ \E i, j \in Tasks :
       /\ ~repoPattern(trim(repositories[i]))
       /\ branchCalls[j] # <<>>

\* The branch lookup of promise i was issued and GitHub answers it in way b.
branchAnswered(i, b) ==
  /\ settled(i)
  /\ branchCalls[i] # <<>>
  /\ answerFor(i).branch = b

hasOutcome(status, details) ==
  /\ status.state = "unknown"
  /\ status.total_checks = 0
  /\ status.details = details

\* C7: a branch lookup answered 404 resolves the repository to unknown, 0,
\* 'Main branch not found', which is not the generic 'Error fetching status'.
C7_NotFound ==
  \A i \in Tasks :
    branchAnswered(i, "not_found")
      => /\ hasOutcome(results[i], "Main branch not found")
         /\ ~hasOutcome(results[i], "Error fetching status")
         /\ answered => hasOutcome(response.body[repositories[i]], "Main branch not found")

\* C7 witness: in an answered request one repository got 404 from the branch
\* lookup and another failed with the generic error.
C7_Witness ==
  /\ answered
  /\ \E i, j \in Tasks :
       /\ branchAnswered(i, "not_found")
       /\ hasOutcome(results[i], "Main branch not found")
       /\ hasOutcome(results[j], "Error fetching status")

\* The listing of check runs of promise i was issued and GitHub answers it in
\* way c.
checksAnswered(i, c) ==
  /\ branchAnswered(i, "ok")
  /\ checkCalls[i] # <<>>
  /\ answerFor(i).checks = c

\* The request is never turned into a request-level error and promise i is
\* reported with the generic error.
degraded(i) ==
  /\ hasOutcome(results[i], "Error fetching status")
  /\ answered =>
       /\ response.status = 200
       /\ hasOutcome(response.body[repositories[i]], "Error fetching status")

\* C8 as stated: every failure of the branch lookup other than 404 and every
\* failure of the check-run listing, a response of unexpected schema
\* included, yields unknown, 0, 'Error fetching status' and no request-level
\* error.
C8_EveryFailureDegrades ==
  \A i \in Tasks :
    ( \/ \E b \in {"http_error", "network_error", "bad_schema"} : branchAnswered(i, b)
      \/ \E c \in {"http_error", "network_error", "bad_schema", "no_list"} :
           checksAnswered(i, c) )
      => degraded(i)

\* C8 amended: every failure of the branch lookup other than 404 (a non-2xx
\* status, a rejected fetch, a body without commit.sha) and every failure of
\* the check-run listing that is a non-2xx status, a rejected fetch or a body
\* that cannot be read yields unknown, 0, 'Error fetching status' and no
\* request-level error; a 2xx listing that only lacks the check_runs list is
\* read as an empty list and yields 'No CI configured'.
C8_ThrownFailureDegrades ==
  \A i \in Tasks :
    /\ ( \/ \E b \in {"http_error", "network_error", "bad_schema"} : branchAnswered(i, b)
         \/ \E c \in {"http_error", "network_error", "bad_schema"} : checksAnswered(i, c) )
         => degraded(i)
    /\ checksAnswered(i, "no_list") => hasOutcome(results[i], "No CI configured")

\* C8 witness: an answered request in which one repository's branch lookup
\* and another repository's check-run listing failed.
C8_Witness ==
  /\ answered
  /\ response.status = 200
  /\ \E i, j \in Tasks :
       /\ \E b \in {"http_error", "network_error", "bad_schema"} : branchAnswered(i, b)
       /\ \E c \in {"http_error", "network_error", "bad_schema"} : checksAnswered(j, c)

\* The result of the request that carries repo_id alone: the per-repository
\* function run from its start to its return.
resolveAlone(repo_id) ==
  LET started == startPromise(repo_id)
      path == started.branchCalls[1]
      lookedUp == afterBranch(repo_id, path, answerOf(github, path))
  IN IF started.pc = "done" THEN started.result
     ELSE IF lookedUp.pc = "done" THEN lookedUp.result
     ELSE afterChecks(repo_id, lookedUp.checkCalls[1], answerOf(github, path))

\* C9: under every interleaving of GitHub's responses, each repository of a
\* batch resolves to what it resolves to when requested alone, whatever
\* happens to the other repositories, and the batch is answered with every
\* such result.
C9_Isolation ==
  (phase # "received" /\ token # "" /\ request.shape = "array")
    => /\ \A i \in Tasks : settled(i) => results[i] = resolveAlone(repositories[i])
       /\ answered =>
            /\ response.status = 200
            /\ \A i \in Tasks :
                 /\ results[i].repo_id \in DOMAIN response.body
                 /\ response.body[results[i].repo_id] = resolveAlone(repositories[i])

\* C9 witness: an answered batch in which one repository was rejected, another
\* failed with the generic error or was not found, and a third one resolved
\* from its check runs, or two of these with the failure answered first.
C9_Witness ==
  /\ answered
  /\ \E i, j \in Tasks :
       /\ i < j
       /\ \/ hasOutcome(results[i], "Error fetching status")
          \/ hasOutcome(results[i], "Main branch not found")
       /\ results[j].state \in {"success", "failure", "pending"}
       /\ response.body[repositories[j]].state = results[j].state

\* C10: when none of the four token variables is set, no GitHub call is
\* issued and every requested identifier gets unknown, 0, 'GitHub token not
\* configured'.
C10_NoToken ==
  (\A n \in EnvNames : env[n] = "")
    => /\ branchCalls = <<>>
       /\ checkCalls = <<>>
       /\ answered =>
            /\ response.status = 200
            /\ \A id \in inputIds :
                 /\ id \in DOMAIN response.body
                 /\ hasOutcome(response.body[id], "GitHub token not configured")

\* C10 witness: without a token, a request for a valid and an invalid
\* identifier has been answered.
C10_Witness ==
  /\ \A n \in EnvNames : env[n] = ""
  /\ answered
  /\ \E id, other \in inputIds : isValidRepoId(id) /\ ~isValidRepoId(other)

\* C11: a request whose "repositories" is no array of strings (no array, or
\* an array with an element that is no string) is answered with a
\* request-level error and no per-repository mapping.
C11_MalformedIsRequestError ==
  (phase = "responded" /\ request.shape # "array")
    => /\ response.status # 200
       /\ response.error # ""
       /\ response.body = <<>>

\* Every promise of the request has settled.
allSettled == \A i \in Tasks : pc[i] = "done"

\* C12: the response of a fanned-out request is produced only when every
\* per-repository promise has settled and it carries the result of each of
\* them; and once all have settled the response is produced.
C12_FanInJoin ==
  /\ [](phase = "responded" /\ pc # <<>>
          => /\ allSettled
             /\ response.status = 200
             /\ \A i \in Tasks :
                  /\ results[i].repo_id \in DOMAIN response.body
                  /\ response.body[results[i].repo_id] = results[i])
  /\ (phase = "awaiting" /\ allSettled) ~> (phase = "responded")

\* C12 witness: a request for several repositories, one of which went through
\* both GitHub calls, has been answered.
C12_Witness ==
  /\ phase = "responded"
  /\ Len(pc) > 1
  /\ \E i \in Tasks : checkCalls[i] # <<>>

\* C13: every GitHub call is bounded by a timeout, so a fanned-out request is
\* eventually answered even if a call is never answered.
C13_EventuallyAnswered == (phase = "awaiting") ~> (phase = "responded")

\* C14: the state is a function of the check runs that are not Dependabot's:
\* two repositories whose listed check runs differ only in Dependabot runs,
\* the case where no other run is listed included, resolve to the same state.
C14_StateOfConsideredRuns ==
  \A i, j \in Tasks :
    (listed(i) /\ listed(j) /\ considered(i) = considered(j))
      => results[i].state = results[j].state

\* What one identifier resolves to, with or without a token.
resolved(id) == IF token = "" THEN noTokenStatus(id) ELSE resolveAlone(id)

\* C15: the result mapping is determined by the set of input identifiers and
\* GitHub's answers: its keys, and the state, total_checks and details of each
\* entry, are the same for every order of the input, with duplicates and
\* several invalid identifiers, and for every order of completion.
C15_OrderInsensitive ==
  answered =>
    /\ DOMAIN response.body = { resolved(id).repo_id : id \in inputIds }
    /\ \A id \in inputIds :
         /\ response.body[resolved(id).repo_id].state = resolved(id).state
         /\ response.body[resolved(id).repo_id].total_checks = resolved(id).total_checks
         /\ response.body[resolved(id).repo_id].details = resolved(id).details

\* C15 witness: an answered request whose first identifier is invalid and
\* whose last resolved from check runs, the promises having settled in the
\* order of the input.
C15_Witness ==
  /\ answered
  /\ token # ""
  /\ \E i, j \in Tasks :
       /\ i < j
       /\ ~isValidRepoId(repositories[i])
       /\ listed(j)
       /\ results[j].state \in {"success", "failure", "pending"}

C17_NoRetries ==
  /\ [](\A i \in Tasks : Len(branchCalls[i]) <= 1 /\ Len(checkCalls[i]) <= 1)
  /\ [][ /\ \A i \in Tasks :
              pc[i] = "done"
                => /\ pc'[i] = "done"
                   /\ branchCalls'[i] = branchCalls[i]
                   /\ checkCalls'[i] = checkCalls[i]
         /\ github' = github ]_vars

\* C17 witness: an answered request in which a branch lookup and a check-run
\* listing failed.
C17_Witness ==
  /\ answered
  /\ \E i, j \in Tasks :
       /\ branchAnswered(i, "network_error")
       /\ checksAnswered(j, "http_error")
       /\ Len(branchCalls[i]) = 1
       /\ Len(checkCalls[j]) = 1

\* completedAt of a check run, or startedAt when completedAt is absent.
stamp(c) == IF c.completed_at # 0 THEN c.completed_at ELSE c.started_at

\* The timestamps the runs of a list carry.
stamps(runs) == { stamp(runs[k]) : k \in DOMAIN runs } \ {0}

\* C18: for a repository with a check run that is not Dependabot's,
\* updated_at is the latest completedAt (startedAt when completedAt is absent)
\* of the runs that are not Dependabot's, and the current time when none of
\* them carries a timestamp.
C18_UpdatedAt ==
  \A i \in Tasks :
    (listed(i) /\ considered(i) # <<>>)
      => IF stamps(considered(i)) = {}
         THEN results[i].updated_at = Now
         ELSE /\ results[i].updated_at \in stamps(considered(i))
              /\ \A t \in stamps(considered(i)) : t <= results[i].updated_at

\* C18 witness: a repository with a Dependabot run of the latest date, a run
\* that completed after it started and a run without timestamp has resolved
\* with a date before the Dependabot run's.
C18_Witness ==
  \E i \in Tasks :
    /\ listed(i)
    /\ anyRun(raw(i), LAMBDA c : c \in DependabotRuns /\ stamp(c) = MaxTime)
    /\ anyRun(considered(i), LAMBDA c : c.started_at # 0 /\ c.started_at < c.completed_at)
    /\ anyRun(considered(i), LAMBDA c : stamp(c) = 0)
    /\ results[i].updated_at < MaxTime

\* The rows of the table without a definitive state: no entry, or 'unknown'.
indefinite(repo_id) == statusOf(repo_id) \in {"undefined", "unknown"}

\* C19 as stated: every row whose CI status entry is missing or 'unknown'
\* shows the neutral dash, after a failed request and before any response too.
C19_IndefiniteIsDash ==
  \A r \in allRepoMetrics : indefinite(r) => badge(r) = "dash"

\* C19: every row whose CI status entry is missing or 'unknown' shows the
\* neutral dash while ciLoading is false and the loading spinner while it is
\* true, and so never the success, failure or pending icon.
C19_IndefiniteIsDashOrSpinner ==
  \A r \in allRepoMetrics :
    indefinite(r) => badge(r) = IF ciLoading THEN "spinner" ELSE "dash"

\* C19 witness: the only request of the dashboard has failed (no request is
\* outstanding, nothing was cached, the effect has run with rows on display)
\* and every row shows the dash.
C19_Witness ==
  /\ allRepoMetrics # {}
  /\ ~effectDue /\ ciRequests = 0 /\ ~ciLoading /\ ~ciCache.set
  /\ ciStatuses = <<>>
  /\ \A r \in allRepoMetrics : badge(r) = "dash"

\* C20: a request made with a session whose isAuthenticated is false is
\* answered by the analytics page with a redirect to /login and no content,
\* and by the session endpoint with 401, authenticated = false and no user;
\* content and user data are answered only to an authenticated session, and
\* the user is that session's.
C20_BehindLogin ==
  [][ requests' # requests =>
        LET s == getSession
        IN /\ secret /\ ~s.isAuthenticated /\ reply'.route = "page"
                => /\ reply'.redirect = "/login"
                   /\ reply'.content = ""
           /\ secret /\ ~s.isAuthenticated /\ reply'.route = "session"
                => /\ reply'.status = 401
                   /\ reply'.authenticated = "false"
                   /\ reply'.user = ""
           /\ reply'.content # "" \/ reply'.user # ""
                => /\ secret /\ s.isAuthenticated
                   /\ reply'.user \in {"", s.user} ]_vars

\* C20 witness: after a login and a logout, the analytics page was asked for
\* with the destroyed session and answered with the redirect to /login.
C20_Witness ==
  /\ cookie.kind = "cleared"
  /\ reply.route = "page"
  /\ reply.redirect = "/login"
  /\ reply.content = ""

\* C21: a run of the CI-status effect with a cached response younger than
\* CACHE_DURATION sends no request and displays the cached data; a request is
\* sent only with rows loaded and no cached response or one of at least
\* CACHE_DURATION; and the cache changes only in the step of a successful
\* response, to that response's data stamped with the time of its arrival.
C21_Cache ==
  /\ [][ effectDue /\ ~effectDue' /\ isCacheValid
          => /\ ciRequests' = ciRequests
             /\ ciStatuses' = ciCache.data ]_vars
  /\ [][ ciRequests' > ciRequests
          => /\ allRepoMetrics # {}
             /\ ~ciCache.set \/ clock - ciCache.timestamp >= CACHE_DURATION ]_vars
  /\ [][ ciCache' # ciCache
          => /\ ciRequests' = ciRequests - 1
             /\ ciCache' = [set |-> TRUE, data |-> ciStatuses', timestamp |-> clock] ]_vars

\* C21 witness: after the descriptions have loaded and a response was cached,
\* the effect has run again within CACHE_DURATION: no request is outstanding
\* and the cached data (with a definitive state) is on display.
C21_Witness ==
  /\ repoDescriptions /\ ~effectDue
  /\ ciCache.set /\ isCacheValid
  /\ ciRequests = 0 /\ ~ciLoading
  /\ ciStatuses = ciCache.data
  /\ \E r \in DOMAIN ciStatuses : ciStatuses[r] = "failure"

\* C27: at most one CI-status request of the dashboard is outstanding at any
\* time, and ciLoading is true exactly while a request is outstanding.
C27_OneOutstanding ==
  /\ ciRequests <= 1
  /\ ciLoading <=> ciRequests > 0

\* The step in which the callback answers its request.
callbackAnswers == callback.pending /\ ~callback'.pending

\* The callback's success: the redirect to the dashboard.
welcomed(r) == r.route = "callback" /\ r.redirect = "/analytics"

\* An outcome of the callback without success: a JSON error, or a redirect to
\* the login page with an error code.
refused(r) ==
  /\ r.route = "callback"
  /\ r.content = "" /\ r.user = ""
  /\ \/ r.status \in {400, 403, 500} /\ r.redirect = ""
     \/ r.status = 307 /\ r.redirect \notin {"", "/analytics"}

\* What C22 asks of a callback request q and of Google's answers to it.
entitled(q) ==
  /\ q.code # ""
  /\ q.state # 0 /\ q.state = q.storedState
  /\ q.pkceVerifier # 0
  /\ q.google \in Users

\* C22: the callback creates an authenticated session only for a request with
\* a code, a state equal to the oauth_state cookie and a pkce_verifier cookie
\* whose token exchange and user-info lookup succeeded (the session is then
\* that user's); in every other case the session is unchanged and the answer
\* is an error or a redirect to the login page with an error code; and no
\* other step creates a session.
C22_CallbackCreatesSession ==
  /\ [][ callbackAnswers
          => /\ cookie' # cookie \/ welcomed(reply')
                  => /\ entitled(callback)
                     /\ cookie'.kind = "sealed"
                     /\ cookie'.data.isAuthenticated
                     /\ cookie'.data.user = callback.google
             /\ ~entitled(callback) => cookie' = cookie /\ refused(reply') ]_vars
  /\ [][ cookie' # cookie /\ cookie'.kind = "sealed" => callbackAnswers ]_vars
  /\ [][ oauth_state' \notin {0, oauth_state} => reply'.route = "login" ]_vars

\* C22 witness: after a login, a callback with the state of the cookie was
\* answered with the redirect to the dashboard and the browser holds an
\* authenticated session; one token exchange was made.
C22_Witness ==
  /\ welcomed(reply)
  /\ cookie.kind = "sealed" /\ cookie.data.isAuthenticated
  /\ exchanges = 1

\* The users the configured domain restriction keeps out.
unauthorized(user) ==
  /\ allowedDomains # <<>>
  /\ \A i \in DOMAIN allowedDomains : email(user) = <<>> \/ allowedDomains[i] # email(user)[2]

\* The access-denied outcomes: 403 of route.ts, error=unauthorized_domain of part_003.
accessDenied(r) ==
  /\ r.route = "callback"
  /\ r.status = 403 \/ r.redirect = "/login?error=unauthorized_domain"

\* C23: with allowedDomains configured, the callback creates a session only
\* for a user whose e-mail domain is allowed; for every other user whose user
\* info it obtained (one without e-mail included; Google reported no error)
\* it ends with the access-denied outcome and the session is unchanged.
C23_DomainRestriction ==
  [][ callbackAnswers /\ allowedDomains # <<>>
        => /\ cookie' # cookie \/ welcomed(reply') => ~unauthorized(callback.google)
           /\ entitled(callback) /\ callback.error = "" /\ unauthorized(callback.google)
                => accessDenied(reply') /\ cookie' = cookie ]_vars

\* C24: once the client's logout request has been answered, the session is
\* destroyed: a session check reports unauthenticated.
C24_LogoutEndsSession ==
  reply.route = "handleLogout" => ~getSession.isAuthenticated

\* C26: the callback that creates a session removes the pkce_verifier and
\* oauth_state cookies, only the login route sets them again, and a callback
\* request made without the oauth_state cookie is refused without a token
\* exchange and without a change of the session.
C26_OneShot ==
  /\ [][ callbackAnswers /\ welcomed(reply')
          => oauth_state' = 0 /\ pkce_verifier' = 0 ]_vars
  /\ [][ oauth_state' \notin {0, oauth_state} \/ pkce_verifier' \notin {0, pkce_verifier}
          => reply'.route = "login" /\ requests' = requests + 1 ]_vars
  /\ [][ callbackAnswers /\ callback.storedState = 0
          => /\ exchanges' = exchanges
             /\ cookie' = cookie
             /\ refused(reply') ]_vars

\* C26 witness: the browser holds the session of a successful callback, its
\* login cookies are gone, and a later callback request was refused: one token
\* exchange was made in all.
C26_Witness ==
  /\ cookie.kind = "sealed"
  /\ oauth_state = 0 /\ pkce_verifier = 0
  /\ refused(reply)
  /\ exchanges = 1
  /\ requests = 3

\* C25: a request without an authenticated session triggers no call to
\* GitHub and receives no repository status.
C25_CIStatusBehindLogin ==
  ~getSession.isAuthenticated
    => /\ \A i \in Tasks : branchCalls[i] = <<>> /\ checkCalls[i] = <<>>
       /\ response.body = <<>>

RECURSIVE notAfter(_, _)
\* String a stands at or before string b in the order of the characters' ranks.
notAfter(a, b) ==
  \/ a = <<>>
  \/ b # <<>> /\ (Head(a) < Head(b) \/ (Head(a) = Head(b) /\ notAfter(Tail(a), Tail(b))))

\* Row a may stand before row b in a table ascending by column.
mayPrecede(a, b, column) ==
  IF column = "ci_status"
  THEN statusOrder[stateOrUnknown(a.repo_id)] <= statusOrder[stateOrUnknown(b.repo_id)]
  ELSE IF column \in {"name", "language", "version"}
  THEN notAfter(orEmpty(a[column]), orEmpty(b[column]))
  ELSE a[column] <= b[column]

\* shown holds the rows of rows, each as often, in the order of column and direction.
orderedPermutation(shown, rows, column, direction) ==
  /\ Len(shown) = Len(rows)
  /\ \A r \in {rows[i] : i \in DOMAIN rows} \cup {shown[i] : i \in DOMAIN shown} :
       Cardinality({i \in DOMAIN rows : rows[i] = r})
         = Cardinality({i \in DOMAIN shown : shown[i] = r})
  /\ \A i, j \in DOMAIN shown :
       i < j => IF direction = "asc" THEN mayPrecede(shown[i], shown[j], column)
                ELSE mayPrecede(shown[j], shown[i], column)

flipped(direction) == IF direction = "asc" THEN "desc" ELSE "asc"

\* The sort column and direction of one table before and after a click on
\* the header of column.
clickedOn(before, direction, after, directionAfter, column) ==
  IF before = column THEN after = before /\ directionAfter = flipped(direction)
  ELSE after = column /\ directionAfter = "desc"

\* C28: a click on the header of the current sort column flips the direction
\* and keeps the column, a click on another header makes it the sort column
\* with direction desc, a click on one table leaves the other tables' column
\* and direction alone, and each table always displays a permutation of its
\* rows ordered by its column and direction.
C28_SortStateMachine ==
  /\ [][ /\ clicked'.table = "repos"
             => /\ clickedOn(sortColumn, sortDirection, sortColumn', sortDirection',
                             clicked'.column)
                /\ UNCHANGED <<templateSortColumn, templateSortDirection, pypiSortColumn,
                               pypiSortDirection>>
         /\ clicked'.table = "templates"
             => /\ clickedOn(templateSortColumn, templateSortDirection,
                             templateSortColumn', templateSortDirection', clicked'.column)
                /\ UNCHANGED <<sortColumn, sortDirection, pypiSortColumn, pypiSortDirection>>
         /\ clicked'.table = "pypi"
             => /\ clickedOn(pypiSortColumn, pypiSortDirection, pypiSortColumn',
                             pypiSortDirection', clicked'.column)
                /\ UNCHANGED <<sortColumn, sortDirection, templateSortColumn,
                               templateSortDirection>> ]_vars
  /\ [](/\ orderedPermutation(sortedRepoMetrics, metrics.repos, sortColumn, sortDirection)
        /\ orderedPermutation(sortedTemplateMetrics, metrics.templates, templateSortColumn,
                              templateSortDirection)
        /\ orderedPermutation(sortedPypiMetrics, metrics.pypi, pypiSortColumn,
                              pypiSortDirection))

\* C28 witness: with rows and statuses loaded, the repositories table is
\* sorted by CI status ascending after two clicks on that header, the
\* templates table by another column, and the PyPI table was clicked last and
\* shows its rows in another order than they were loaded.
C28_Witness ==
  /\ metrics.repos # <<>> /\ ciStatuses # <<>>
  /\ sortColumn = "ci_status" /\ sortDirection = "asc"
  /\ templateSortColumn = "language"
  /\ clicked.table = "pypi" /\ pypiSortColumn = "version"
  /\ sortedPypiMetrics # metrics.pypi
  /\ sortedRepoMetrics # metrics.repos

\* The repositories that belong on the page under filter f.
repositoriesOf(f) ==
  {repo \in {repositoryData.repositories[i] : i \in DOMAIN repositoryData.repositories} :
     f = "all" \/ repo.type = f}

\* C29: under every filter the cards displayed are exactly the repositories
\* of that type (all of them for all), as many as the number on the filter's
\* tab; the numbers on the three type tabs add up to the number on the tab
\* All; the message "No repositories found" is displayed exactly when there is
\* no card; and a change of filter changes no number on any tab.
C29_CatalogFiltering ==
  /\ [](/\ {filteredRepositories[i] : i \in DOMAIN filteredRepositories}
             = repositoriesOf(activeFilter)
        /\ Len(filteredRepositories) = Cardinality(repositoriesOf(activeFilter))
        /\ Len(filteredRepositories) = counts[activeFilter]
        /\ \A f \in Filters : counts[f] = Cardinality(repositoriesOf(f))
        /\ counts["applied-research"] + counts["bootcamp"] + counts["tool"] = counts["all"]
        /\ noResults <=> counts[activeFilter] = 0)
  /\ [][counts' = counts]_vars

\* C29 witness: the tab Bootcamp is selected on a catalog of three
\* repositories, two of them tools and none a bootcamp, and the message is
\* displayed in place of cards.
C29_Witness ==
  /\ activeFilter = "bootcamp"
  /\ Len(repositoryData.repositories) = 3
  /\ counts["tool"] = 2 /\ counts["applied-research"] = 1
  /\ noResults

\* Each run of the effect constructs at most one PagefindUI.
instantiatedOnce == \A i \in DOMAIN effects : effects[i].instantiated <= 1

\* A run polls only while it has found nothing, the search bar has not
\* unmounted since, and no more than 5 seconds have passed since it ran.
pollingStops ==
  \A i \in DOMAIN effects :
    effects[i].checkPagefind
      => /\ effects[i].instantiated = 0
         /\ mounted /\ i = Len(effects)
         /\ now <= effects[i].mountedAt + TIMEOUT

\* The placeholder is inserted by a timeout callback 5 seconds after its
\* run, with PagefindUI undefined and the container childless.
placeholderAtTimeout ==
  heroSearchContainer'.placeholder /\ ~heroSearchContainer.placeholder
    => /\ ~PagefindUI /\ childless
       /\ \E i \in DOMAIN effects :
            /\ effects[i].timeout /\ ~effects'[i].timeout
            /\ now = effects[i].mountedAt + TIMEOUT

\* C30: once the search bar has mounted with its container present, a run of
\* its effect constructs PagefindUI at most once; its polling has stopped
\* once PagefindUI was found, the search bar unmounted or 5 seconds passed;
\* the placeholder is inserted only at the 5-second mark with PagefindUI
\* undefined and the container empty; and the container never holds both the
\* placeholder and a PagefindUI the search bar constructed.
C30_SearchBar ==
  /\ [](instantiatedOnce /\ pollingStops)
  /\ [][placeholderAtTimeout]_vars
  /\ [](heroSearchContainer.present
          => ~(heroSearchContainer.placeholder /\ heroSearchContainer.instances > 0))

====
